---- MODULE Spec2Model ----
(***************************************************************************)
(* Model of url-submitter (src/main.py): SitemapParser, BingSubmitter,     *)
(* IndexNowSubmitter and main().                                           *)
(*                                                                         *)
(* Strings whose content the code inspects (link texts, URLs) are          *)
(* sequences of one-character strings, so that str.strip and str.split     *)
(* are computed rather than assumed.                                       *)
(***************************************************************************)
EXTENDS Integers, Sequences, FiniteSets, Bags, TLC

VARIABLES
    entry,        \* which callable is run: "main", "bing", "indexnow"
    loggerBound,  \* is the module global `logger` bound to a logger object?
    file,         \* the sitemap file named by --sitemap
    bingKey,      \* os.getenv('BING_API_KEY') / BingSubmitter.api_key
    indexNowKey,  \* os.getenv('INDEXNOW_API_KEY') / IndexNowSubmitter.api_key
    pc,           \* position in the straight-line code
    parseRet,     \* value returned by parse_rss_sitemap
    urls,         \* the list object `urls` handed to the submitters
    limit,        \* BingSubmitter.submit_urls's `limit` argument
    site_url,     \* the site origin
    result,       \* the latest value of `result`
    lastResp,     \* what the latest submit_urls call got from session.post
    posts,        \* every session.post attempted, in order
    log,          \* records passed to the logger, in order
    raised        \* the exception that escaped, if any

vars == <<entry, loggerBound, file, bingKey, indexNowKey, pc, parseRet, urls,
          limit, site_url, result, lastResp, posts, log, raised>>

----------------------------------------------------------------------------
(* Bounds *)

MaxItems == 3
MaxLimit == 2

(* default of the `limit` parameter *)
DefaultLimit == 10

----------------------------------------------------------------------------
(* Strings *)

Min(a, b) == IF a < b THEN a ELSE b

IsSpace(c) == c \in {" ", "\t", "\n"}

RECURSIVE LStrip(_)
LStrip(s) == IF s # <<>> /\ IsSpace(Head(s)) THEN LStrip(Tail(s)) ELSE s

RECURSIVE RStrip(_)
RStrip(s) ==
    IF s # <<>> /\ IsSpace(s[Len(s)]) THEN RStrip(SubSeq(s, 1, Len(s) - 1)) ELSE s

(* str.strip() *)
Strip(s) == RStrip(LStrip(s))

(* str.split('/'): the pieces between the separators; always at least one *)
RECURSIVE Split(_, _)
Split(s, sep) ==
    IF \A i \in DOMAIN s : s[i] # sep
    THEN <<s>>
    ELSE LET j == CHOOSE i \in DOMAIN s :
                      s[i] = sep /\ \A k \in 1..(i - 1) : s[k] # sep
         IN  <<SubSeq(s, 1, j - 1)>> \o Split(SubSeq(s, j + 1, Len(s)), sep)

Slash == "/"

----------------------------------------------------------------------------
(* Inputs *)

(* os.getenv gives None for an unset variable, else its (maybe empty) value *)
None == "None"
Keys == {None, "", "k"}

(* truth value of a key as Python's `not key` / `a and b` see it *)
Truthy(key) == key # None /\ key # ""

(* link texts of the sitemap; <<>> stands for a link without text *)
LinkTexts ==
    { <<"h", ":", "/", "/", "a", "/", "x">>,
      <<" ", "h", ":", "/", "/", "b", "\n">>,
      <<"a", "b">>,
      <<" ", "\t">>,
      <<>> }

(* an <item>: with or without a <link> child *)
Items == {[hasLink |-> FALSE, text |-> <<>>]}
           \cup {[hasLink |-> TRUE, text |-> t] : t \in LinkTexts}

(* a sitemap with more links than the batch call's default limit: the same
   link throughout but for the second, which differs and needs trimming *)
LongLen == DefaultLimit + 5
LongItems ==
    [i \in 1..LongLen |->
        [hasLink |-> TRUE,
         text |-> IF i = 2 THEN <<" ", "h", ":", "/", "/", "b", "\n">>
                  ELSE <<"h", ":", "/", "/", "a", "/", "x">>]]

SeqsUpTo(S, n) == UNION {[1..k -> S] : k \in 0..n}

(* the sitemap file: absent, not XML, unreadable for another reason,
   or well-formed with its <item> elements in document order *)
Files ==
    {[kind |-> k, items |-> <<>>] : k \in {"missing", "malformed", "unreadable"}}
      \cup {[kind |-> "ok", items |-> its] : its \in SeqsUpTo(Items, MaxItems)}
      \cup {[kind |-> "ok", items |-> LongItems]}

(* URL lists handed to a submitter called on its own *)
UrlLists == SeqsUpTo({Strip(t) : t \in LinkTexts} \ {<<>>}, MaxItems)

Limits == (-1..MaxLimit) \cup {DefaultLimit}

NoSite == <<>>
DirectSite == <<"h", ":", "/", "/", "a">>

(* what session.post, and decoding the body, can come to *)
HttpOutcomes ==
    {[kind |-> "response", code |-> c, json |-> j] :
         c \in {200, 202, 404, 500}, j \in BOOLEAN}
      \cup {[kind |-> k, code |-> 0, json |-> FALSE] :
               k \in {"RequestException", "Exception"}}

NoResp == [kind |-> "none", code |-> 0, json |-> FALSE]

----------------------------------------------------------------------------
(* Results and log records *)

Res(st, msg, code, resp) ==
    [status |-> st, message |-> msg, code |-> code, response |-> resp]

NoResult == Res("none", "", 0, "none")

MissingKeyResult == Res("error", "missing api key", 0, "none")

Rec(level, what) == <<level, what>>

----------------------------------------------------------------------------
(* SitemapParser *)

(* the test of line 40 on one item *)
LinkTaken(item) == item.hasLink /\ item.text # <<>>

(* lines 38-41: the loop over the items *)
RECURSIVE ExtractLinks(_)
ExtractLinks(items) ==
    IF items = <<>> THEN <<>>
    ELSE (IF LinkTaken(Head(items)) THEN <<Strip(Head(items).text)>> ELSE <<>>)
           \o ExtractLinks(Tail(items))

(* a log call inside the parser: it reads the module global `logger` *)
ParserLogRaises(bound) == ~bound

(* parse_rss_sitemap: what it returns or raises, and what it logs.
   `bound` tells whether the module global `logger` names a logger. *)
parse_rss_sitemap(f, bound) ==
    IF ParserLogRaises(bound)
    THEN \* logger.info / logger.error raise NameError; the one raised in the
         \* try block is caught at line 52, whose logger.error raises again
         [raised |-> "NameError", ret |-> <<>>, logs |-> <<>>]
    ELSE CASE f.kind = "ok" ->
                [raised |-> "none", ret |-> ExtractLinks(f.items),
                 logs |-> <<Rec("INFO", "parsed sitemap")>>]
           [] f.kind = "malformed" ->
                [raised |-> "none", ret |-> <<>>,
                 logs |-> <<Rec("ERROR", "xml parse error")>>]
           [] f.kind = "missing" ->
                [raised |-> "none", ret |-> <<>>,
                 logs |-> <<Rec("ERROR", "file not found")>>]
           [] OTHER ->
                [raised |-> "none", ret |-> <<>>,
                 logs |-> <<Rec("ERROR", "error while parsing")>>]

----------------------------------------------------------------------------
(* Submitters *)

(* variant: `if self.api_key is None` *)
KeyIsNone(key) == key = None

(* `if not self.api_key` *)
KeyMissing(key) == ~Truthy(key)

(* variant: the sample size without the cap *)
SampleSizeUncapped(us, lim) == Len(us)

(* min(len(urls), limit) *)
SampleSize(us, lim) == Min(Len(us), lim)

RemoveAt(us, i) == SubSeq(us, 1, i - 1) \o SubSeq(us, i + 1, Len(us))

(* random.sample(us, k), 0 <= k <= len(us): k positions drawn one after the
   other without replacement, the result being the elements in the order
   drawn.  Positions holding the same value lead to the same results, so
   the first position of each value stands for them all *)
RECURSIVE RandomSample(_, _)
RandomSample(us, k) ==
    IF k = 0 THEN {<<>>}
    ELSE UNION { { <<us[i]>> \o rest : rest \in RandomSample(RemoveAt(us, i), k - 1) } :
                   i \in { j \in DOMAIN us : \A h \in 1..(j - 1) : us[h] # us[j] } }

(* variant: list(dict.fromkeys(urls)), each URL once *)
RECURSIVE PushUrlListUnique(_)
PushUrlListUnique(us) ==
    IF us = <<>> THEN <<>>
    ELSE LET init == PushUrlListUnique(SubSeq(us, 1, Len(us) - 1))
             last == us[Len(us)]
         IN  IF \E i \in DOMAIN init : init[i] = last
             THEN init ELSE Append(init, last)

(* the urlList IndexNowSubmitter puts in its payload *)
PushUrlList(us) == us

(* lines 112-134: the results a batch call can end with.  Decoding a body
   that is not JSON raises inside the try block; which handler gets it
   depends on the installed requests version, so both are possible *)
BingResult(out) ==
    CASE out.kind = "response" /\ out.code = 200 /\ out.json ->
           {Res("success", "submitted", 0, "json")}
      [] out.kind = "response" /\ out.code = 200 /\ ~out.json ->
           {Res("error", "network request error", 0, "none"),
            Res("error", "error while submitting", 0, "none")}
      [] out.kind = "response" /\ out.code # 200 ->
           {Res("error", "submit failed, status code", out.code, "text")}
      [] out.kind = "RequestException" ->
           {Res("error", "network request error", 0, "none")}
      [] OTHER ->
           {Res("error", "error while submitting", 0, "none")}

(* lines 181-203 *)
IndexNowResult(out) ==
    CASE out.kind = "response" /\ out.code \in {200, 202} ->
           Res("success", "submitted, status code", out.code, "text")
      [] out.kind = "response" ->
           Res("error", "submit failed, status code", out.code, "text")
      [] out.kind = "RequestException" ->
           Res("error", "network request error", 0, "none")
      [] OTHER ->
           Res("error", "error while submitting", 0, "none")

Post(target, key, site, us) ==
    [target |-> target, key |-> key, site |-> site, urlList |-> us]

(* BingSubmitter.submit_urls(us, site, lim) with api_key = key *)
BingSubmitter_submit_urls(key, us, site, lim) ==
    IF KeyMissing(key)
    THEN /\ result' = MissingKeyResult
         /\ lastResp' = NoResp
         /\ posts' = posts
    ELSE IF SampleSize(us, lim) < 0
    THEN \* random.sample raises ValueError, caught at line 130
         /\ result' = Res("error", "error while submitting", 0, "none")
         /\ lastResp' = NoResp
         /\ posts' = posts
    ELSE \E sample \in RandomSample(us, SampleSize(us, lim)) :
         \E out \in HttpOutcomes :
         \E r \in BingResult(out) :
            /\ posts' = Append(posts, Post("bing", key, site, sample))
            /\ lastResp' = out
            /\ result' = r

(* IndexNowSubmitter.submit_urls(us, site) with api_key = key *)
IndexNowSubmitter_submit_urls(key, us, site) ==
    IF KeyMissing(key)
    THEN /\ result' = MissingKeyResult
         /\ lastResp' = NoResp
         /\ posts' = posts
    ELSE \E out \in HttpOutcomes :
            /\ posts' = Append(posts, Post("indexnow", key, site, PushUrlList(us)))
            /\ lastResp' = out
            /\ result' = IndexNowResult(out)

----------------------------------------------------------------------------
(* main() *)

(* variant: bing_api_key or indexNow_api_key *)
KeysEither(b, i) == Truthy(b) \/ Truthy(i)

(* line 274: bing_api_key and indexNow_api_key *)
KeysPresent(b, i) == Truthy(b) /\ Truthy(i)

(* lines 287-291 / 295-299 *)
ResultRec(r) ==
    IF r.status = "success" THEN Rec("INFO", "submit ok")
    ELSE Rec("ERROR", "submit failed")

Init ==
    /\ entry \in {"main", "bing", "indexnow"}
    /\ pc = "start"
    /\ parseRet = <<>>
    /\ result = NoResult
    /\ lastResp = NoResp
    /\ posts = <<>>
    /\ log = <<>>
    /\ raised = "none"
    /\ IF entry = "main"
       THEN \* run as a script the global `logger` is never bound (line 252
            \* only annotates it, line 263 binds a local of main); a module
            \* that imports this one may have bound it before calling main
            /\ loggerBound \in BOOLEAN
            /\ file \in Files
            /\ bingKey \in Keys
            /\ indexNowKey \in Keys
            /\ urls = <<>>
            /\ limit = DefaultLimit
            /\ site_url = NoSite
       ELSE /\ loggerBound = FALSE
            /\ file = [kind |-> "missing", items |-> <<>>]
            /\ urls \in UrlLists
            /\ site_url = DirectSite
            /\ IF entry = "bing"
               THEN bingKey \in Keys /\ indexNowKey = None /\ limit \in Limits
               ELSE indexNowKey \in Keys /\ bingKey = None /\ limit = DefaultLimit

(* line 265 *)
MainParse ==
    /\ entry = "main" /\ pc = "start"
    /\ LET r == parse_rss_sitemap(file, loggerBound) IN
         IF r.raised # "none"
         THEN /\ raised' = r.raised
              /\ pc' = "crashed"
              /\ UNCHANGED <<parseRet, urls, log>>
         ELSE /\ parseRet' = r.ret
              /\ urls' = r.ret
              /\ log' = log \o r.logs
              /\ pc' = "parsed"
              /\ UNCHANGED raised
    /\ UNCHANGED <<entry, loggerBound, file, bingKey, indexNowKey, limit,
                   site_url, result, lastResp, posts>>

(* lines 267-269 *)
MainEmptyGuard ==
    /\ entry = "main" /\ pc = "parsed"
    /\ IF urls = <<>>
       THEN log' = Append(log, Rec("WARNING", "no urls")) /\ pc' = "done"
       ELSE log' = log /\ pc' = "keys"
    /\ UNCHANGED <<entry, loggerBound, file, bingKey, indexNowKey, parseRet,
                   urls, limit, site_url, result, lastResp, posts, raised>>

(* lines 272-278 *)
MainKeyGuard ==
    /\ entry = "main" /\ pc = "keys"
    /\ IF ~KeysPresent(bingKey, indexNowKey)
       THEN log' = Append(log, Rec("ERROR", "no api key")) /\ pc' = "done"
       ELSE log' = log /\ pc' = "origin"
    /\ UNCHANGED <<entry, loggerBound, file, bingKey, indexNowKey, parseRet,
                   urls, limit, site_url, result, lastResp, posts, raised>>

(* lines 281-282 *)
MainSiteUrl ==
    /\ entry = "main" /\ pc = "origin"
    /\ LET parts == Split(urls[1], Slash) IN
         IF Len(parts) < 3
         THEN \* urls[0].split('/')[2] is out of range
              /\ raised' = "IndexError"
              /\ pc' = "crashed"
              /\ UNCHANGED <<site_url, log>>
         ELSE /\ site_url' = parts[1] \o <<Slash, Slash>> \o parts[3]
              /\ log' = Append(log, Rec("INFO", "site url"))
              /\ pc' = "bing"
              /\ UNCHANGED raised
    /\ UNCHANGED <<entry, loggerBound, file, bingKey, indexNowKey, parseRet,
                   urls, limit, result, lastResp, posts>>

(* lines 284-291 *)
MainBing ==
    /\ entry = "main" /\ pc = "bing"
    /\ BingSubmitter_submit_urls(bingKey, urls, site_url, limit)
    /\ log' = log \o <<Rec("INFO", "submitting to bing"), ResultRec(result')>>
    /\ pc' = "indexnow"
    /\ UNCHANGED <<entry, loggerBound, file, bingKey, indexNowKey, parseRet,
                   urls, limit, site_url, raised>>

(* lines 293-299 *)
MainIndexNow ==
    /\ entry = "main" /\ pc = "indexnow"
    /\ IndexNowSubmitter_submit_urls(indexNowKey, urls, site_url)
    /\ log' = log \o <<Rec("INFO", "submitting to indexnow"), ResultRec(result')>>
    /\ pc' = "done"
    /\ UNCHANGED <<entry, loggerBound, file, bingKey, indexNowKey, parseRet,
                   urls, limit, site_url, raised>>

(* BingSubmitter(key).submit_urls(urls, site_url, limit) called on its own *)
CallBing ==
    /\ entry = "bing" /\ pc = "start"
    /\ BingSubmitter_submit_urls(bingKey, urls, site_url, limit)
    /\ pc' = "returned"
    /\ UNCHANGED <<entry, loggerBound, file, bingKey, indexNowKey, parseRet,
                   urls, limit, site_url, log, raised>>

(* IndexNowSubmitter(key).submit_urls(urls, site_url) called on its own *)
CallIndexNow ==
    /\ entry = "indexnow" /\ pc = "start"
    /\ IndexNowSubmitter_submit_urls(indexNowKey, urls, site_url)
    /\ pc' = "returned"
    /\ UNCHANGED <<entry, loggerBound, file, bingKey, indexNowKey, parseRet,
                   urls, limit, site_url, log, raised>>

Next ==
    \/ MainParse
    \/ MainEmptyGuard
    \/ MainKeyGuard
    \/ MainSiteUrl
    \/ MainBing
    \/ MainIndexNow
    \/ CallBing
    \/ CallIndexNow

Spec == Init /\ [][Next]_vars

----------------------------------------------------------------------------
(* Properties *)

Count(sq, v) == Cardinality({i \in DOMAIN sq : sq[i] = v})

Range(sq) == {sq[i] : i \in DOMAIN sq}

(* C1: once main has called parse_rss_sitemap, no exception has come out of
   it, and for a missing, malformed or unreadable file it has logged an
   error and returned the empty list. *)
C1_ParserNeverRaises ==
    (entry = "main" /\ pc # "start") =>
        /\ raised # "NameError"
        /\ file.kind # "ok" =>
             /\ parseRet = <<>>
             /\ \E i \in DOMAIN log : log[i][1] = "ERROR"

(* C2: no run of main ends with an exception escaping. *)
C2_MainReturnsNormally ==
    entry = "main" => (pc # "crashed" /\ raised = "none")

(* C3: a submit_urls call that got an HTTP 200 response ends with status
   'success'; one that got 404 or 500 ends with status 'error' and its
   message carries that code. *)
C3_StatusCodeDecidesResult ==
    lastResp.kind = "response" =>
        /\ lastResp.code = 200 => result.status = "success"
        /\ lastResp.code \in {404, 500} =>
             (result.status = "error" /\ result.code = lastResp.code)

(* C4: every batch POST carries at most `limit` URLs, no URL more often than
   the input list holds it, and exactly min(len(urls), limit) of them when
   limit >= 0. *)
C4_BatchSampleBounded ==
    \A i \in DOMAIN posts :
        posts[i].target = "bing" =>
            LET sent == posts[i].urlList IN
              /\ Len(sent) <= limit
              /\ \A v \in Range(sent) : Count(sent, v) <= Count(urls, v)
              /\ limit >= 0 => Len(sent) = Min(Len(urls), limit)

C4_Witness ==
    /\ entry = "bing" /\ pc = "returned"
    /\ limit = 2 /\ Len(urls) = 3 /\ urls[1] = urls[3]
    /\ Len(posts) = 1 /\ Len(posts[1].urlList) = 2

(* C5: a submitter whose API key is None or empty returns an error result
   and has made no outbound call. *)
C5_MissingKeyNoCall ==
    /\ (entry = "bing" /\ pc = "returned" /\ bingKey \in {None, ""}) =>
          (result.status = "error" /\ posts = <<>>)
    /\ (entry = "indexnow" /\ pc = "returned" /\ indexNowKey \in {None, ""}) =>
          (result.status = "error" /\ posts = <<>>)

C5_Witness ==
    /\ entry = "indexnow" /\ pc = "returned"
    /\ indexNowKey = "" /\ urls # <<>>
    /\ result.status = "error" /\ posts = <<>>

(* C6: in main an outbound call has been made only if the parsed URL list is
   non-empty and both API keys are present and non-empty. *)
C6_CallsOnlyPastGuards ==
    (entry = "main" /\ posts # <<>>) =>
        /\ parseRet # <<>>
        /\ bingKey \notin {None, ""}
        /\ indexNowKey \notin {None, ""}

C6_Witness ==
    /\ entry = "main" /\ pc = "done"
    /\ parseRet # <<>>
    /\ bingKey = "k" /\ indexNowKey = ""
    /\ posts = <<>>

(* C7: for a well-formed sitemap whose items all have a link with non-blank
   text, parse_rss_sitemap returns the trimmed link texts, one per item, in
   document order. *)
C7_ParseReturnsAllLinks ==
    ( /\ entry = "main" /\ pc # "start"
      /\ file.kind = "ok"
      /\ \A i \in DOMAIN file.items :
            file.items[i].hasLink /\ Strip(file.items[i].text) # <<>> ) =>
        /\ raised # "NameError"
        /\ parseRet = [i \in DOMAIN file.items |-> Strip(file.items[i].text)]

(* C8: in main the urlList of the push POST is the whole parsed URL list, in
   order and with its duplicates, whatever the batch sample was. *)
C8_PushSendsWholeList ==
    entry = "main" =>
        \A i \in DOMAIN posts :
            posts[i].target = "indexnow" => posts[i].urlList = parseRet

C8_Witness ==
    /\ entry = "main" /\ pc = "done"
    /\ Len(parseRet) = LongLen
    /\ Len(posts) = 2
    /\ posts[1].target = "bing" /\ Len(posts[1].urlList) = DefaultLimit
    /\ posts[1].urlList # SubSeq(parseRet, 1, DefaultLimit)
    /\ posts[2].target = "indexnow" /\ posts[2].urlList = parseRet

(* C9: a run of main that passed both guards has, at its end, attempted one
   batch POST and then one push POST; no run makes more than two calls. *)
C9_OneBatchThenOnePush ==
    entry = "main" =>
        /\ Len(posts) <= 2
        /\ ( /\ pc \in {"done", "crashed"}
             /\ raised # "NameError"
             /\ parseRet # <<>>
             /\ Truthy(bingKey) /\ Truthy(indexNowKey) ) =>
               /\ Len(posts) = 2
               /\ posts[1].target = "bing"
               /\ posts[2].target = "indexnow"

(* C10: no string in the list parse_rss_sitemap returns is empty. *)
C10_NoBlankUrlReturned ==
    entry = "main" => \A i \in DOMAIN parseRet : parseRet[i] # <<>>

====
